---- MODULE Spec2Model ----
(***************************************************************************)
(* vkmsctl: the mapping between an in-memory VKMS device description       *)
(* (VkmsDeviceBuilder) and the configfs tree <configfs>/vkms/<device>.     *)
(*                                                                         *)
(* The filesystem is a function from paths to nodes.  A path is the        *)
(* sequence of its components below <configfs>/vkms, so <<>> is the vkms   *)
(* directory itself and <<"d0", "crtcs", "c0">> is vkms/d0/crtcs/c0.       *)
(* File contents are sequences of one-character strings.                   *)
(***************************************************************************)
EXTENDS Naturals, Sequences, FiniteSets, TLC

VARIABLES
    fs,     \* the tree below <configfs>/vkms
    fs0,    \* the tree as it was when the current build() was entered
    pc,     \* "idle" | "build" | "ok" | "err": where build() is; "end" once a device was removed
    dev,    \* the VkmsDeviceBuilder that build() consumes, or NoDevice
    cli,    \* TRUE when dev came from create_vkms_device (the JSON adapter)
    step,   \* index in build(dev) of the next filesystem operation (of the failing one in "err")
    out,    \* outcome of the last from_fs / list / remove command, or NoOutcome
    peer    \* a second process that runs build() at the same time, or NoPeer

vars == <<fs, fs0, pc, dev, cli, step, out, peer>>

\* ------------------------------------------------------------------ bounds

\* Device models lie within MaxEdits single-field edits of BaseDevice.
MaxEdits == 1
\* Longest attribute content of a hand-made tree.
MaxContentLen == 2

\* ------------------------------------------------------------- name sets

Devs == {"d0", "d1"}
CrtcNames == {"c0", "c1"}
PlaneNames == {"p0", "p1"}
EncoderNames == {"e0", "e1"}
ConnectorNames == {"n0", "n1"}

PlaneKind == {"Overlay", "Primary", "Cursor"}
ConnectorStatus == {"Connected", "Disconnected", "Unknown"}

NoDevice == [none |-> TRUE]
NoOutcome == [cmd |-> "none"]
NoPeer == [pc |-> "idle"]
\* Option<T>
None == [some |-> FALSE]
Some(v) == [some |-> TRUE, val |-> v]

\* ------------------------------------------------------------ sequences

Range(s) == {s[i] : i \in DOMAIN s}

RECURSIVE Concat(_)
\* The concatenation of a sequence of sequences.
Concat(ss) ==
    IF ss = <<>> THEN <<>> ELSE Head(ss) \o Concat(Tail(ss))

Parent(p) == SubSeq(p, 1, Len(p) - 1)

IsPrefix(p, q) == Len(p) <= Len(q) /\ SubSeq(q, 1, Len(p)) = p

\* Every enumeration of the finite set S, each element once.
Enum(S) ==
    {e \in [1..Cardinality(S) -> S] : \A x \in S : \E i \in DOMAIN e : e[i] = x}

\* ------------------------------------------------------------ entity model

\* VkmsDeviceBuilder::new
VkmsDeviceBuilder_new(name) ==
    [name |-> name, enabled |-> FALSE, planes |-> <<>>, crtcs |-> <<>>,
     encoders |-> <<>>, connectors |-> <<>>]

PlaneConfig_new(name) ==
    [name |-> name, kind |-> "Overlay", possible_crtcs |-> <<>>]

CrtcConfig_new(name) ==
    [name |-> name, is_writeback_enabled |-> FALSE]

EncoderConfig_new(name) ==
    [name |-> name, possible_crtcs |-> <<>>]

ConnectorConfig_new(name) ==
    [name |-> name, status |-> "Connected", possible_encoders |-> <<>>]

\* VkmsDeviceBuilder::path, below <configfs>/vkms
path(device) == <<device.name>>

\* VkmsDeviceBuilder::add_plane, add_crtc, add_encoder, add_connector: a push,
\* whatever the names the collection already holds.
add_plane(device, plane) == [device EXCEPT !.planes = Append(@, plane)]

add_crtc(device, crtc) == [device EXCEPT !.crtcs = Append(@, crtc)]

add_encoder(device, encoder) == [device EXCEPT !.encoders = Append(@, encoder)]

add_connector(device, connector) == [device EXCEPT !.connectors = Append(@, connector)]

\* ------------------------------------------------------------ filesystem

Dir == [kind |-> "dir"]
File(data) == [kind |-> "file", data |-> data]
Link(target) == [kind |-> "link", target |-> target]

Exists(tree, p) == p \in DOMAIN tree
IsDir(tree, p) == Exists(tree, p) /\ tree[p].kind = "dir"

Ok(tree) == [ok |-> TRUE, fs |-> tree]
Err(kind, tree) == [ok |-> FALSE, err |-> kind, fs |-> tree]

\* What the pseudo-filesystem creates by itself inside a directory made at p:
\* the layout of vkms/<device>/ that build() writes into without creating it.
Populate(p) ==
    IF Len(p) = 1 THEN
        [q \in {p \o <<"enabled">>, p \o <<"crtcs">>, p \o <<"planes">>,
                p \o <<"encoders">>, p \o <<"connectors">>} |->
            IF q[2] = "enabled" THEN File(<<"0">>) ELSE Dir]
    ELSE IF Len(p) = 3 /\ p[2] = "crtcs" THEN
        [q \in {p \o <<"writeback">>} |-> File(<<"0">>)]
    ELSE IF Len(p) = 3 /\ p[2] = "planes" THEN
        [q \in {p \o <<"type">>, p \o <<"possible_crtcs">>} |->
            IF q[4] = "type" THEN File(<<"0">>) ELSE Dir]
    ELSE IF Len(p) = 3 /\ p[2] = "encoders" THEN
        [q \in {p \o <<"possible_crtcs">>} |-> Dir]
    ELSE IF Len(p) = 3 /\ p[2] = "connectors" THEN
        [q \in {p \o <<"status">>, p \o <<"possible_encoders">>} |->
            IF q[4] = "status" THEN File(<<"1">>) ELSE Dir]
    ELSE [q \in {} |-> Dir]

\* Mutant of create_dir: fs::create_dir_all, which accepts an existing directory.
create_dir_all(tree, p) ==
    IF ~IsDir(tree, Parent(p)) THEN Err("NotFound", tree)
    ELSE IF Exists(tree, p) THEN Ok(tree)
    ELSE Ok(Populate(p) @@ (p :> Dir) @@ tree)

\* fs::create_dir: not recursive, fails on an existing path.
create_dir(tree, p) ==
    IF ~IsDir(tree, Parent(p)) THEN Err("NotFound", tree)
    ELSE IF Exists(tree, p) THEN Err("AlreadyExists", tree)
    ELSE Ok(Populate(p) @@ (p :> Dir) @@ tree)

\* fs::write: creates or replaces the file's content.
write(tree, p, data) ==
    IF ~IsDir(tree, Parent(p)) THEN Err("NotFound", tree)
    ELSE IF Exists(tree, p) /\ tree[p].kind # "file" THEN Err("IsADirectory", tree)
    ELSE Ok((p :> File(data)) @@ tree)

\* os::unix::fs::symlink(original, link): the target is not looked at.
symlink(tree, original, link) ==
    IF ~IsDir(tree, Parent(link)) THEN Err("NotFound", tree)
    ELSE IF Exists(tree, link) THEN Err("AlreadyExists", tree)
    ELSE Ok((link :> Link(original)) @@ tree)

\* One filesystem call of build(), as data.
MkDir(p) == [op |-> "create_dir", path |-> p]
Write(p, data) == [op |-> "write", path |-> p, data |-> data]
Symlink(original, link) == [op |-> "symlink", path |-> link, target |-> original]

\* The result of running one filesystem call on the tree.
Apply(tree, o) ==
    CASE o.op = "create_dir" -> create_dir(tree, o.path)
      [] o.op = "write" -> write(tree, o.path, o.data)
      [] o.op = "symlink" -> symlink(tree, o.target, o.path)

\* ------------------------------------------------------------ wire encoding

\* Mutant of BoolBytes: b"1" whatever the field holds.
BoolBytes_AlwaysOne(b) == <<"1">>

\* build(): if crtc.is_writeback_enabled { b"1" } else { b"0" }, and the same for enabled
BoolBytes(b) == IF b THEN <<"1">> ELSE <<"0">>

\* Mutant of PlaneKindBytes: the 1-based numbering of the connector status.
PlaneKindBytes_OneBased(kind) ==
    CASE kind = "Overlay" -> <<"1">>
      [] kind = "Primary" -> <<"2">>
      [] kind = "Cursor" -> <<"3">>

\* build(): match plane.kind
PlaneKindBytes(kind) ==
    CASE kind = "Overlay" -> <<"0">>
      [] kind = "Primary" -> <<"1">>
      [] kind = "Cursor" -> <<"2">>

\* build(): match connector.status
ConnectorStatusBytes(status) ==
    CASE status = "Connected" -> <<"1">>
      [] status = "Disconnected" -> <<"2">>
      [] status = "Unknown" -> <<"3">>

\* ------------------------------------------------------------ build()

CrtcSteps(device, crtc) ==
    LET crtc_path == path(device) \o <<"crtcs", crtc.name>>
    IN  << MkDir(crtc_path),
           Write(crtc_path \o <<"writeback">>, BoolBytes(crtc.is_writeback_enabled)) >>

PlaneSteps(device, plane) ==
    LET plane_path == path(device) \o <<"planes", plane.name>>
    IN  << MkDir(plane_path),
           Write(plane_path \o <<"type">>, PlaneKindBytes(plane.kind)) >>
        \o [i \in DOMAIN plane.possible_crtcs |->
              Symlink(path(device) \o <<"crtcs", plane.possible_crtcs[i]>>,
                      plane_path \o <<"possible_crtcs", plane.possible_crtcs[i]>>)]

EncoderSteps(device, encoder) ==
    LET encoder_path == path(device) \o <<"encoders", encoder.name>>
    IN  << MkDir(encoder_path) >>
        \o [i \in DOMAIN encoder.possible_crtcs |->
              Symlink(path(device) \o <<"crtcs", encoder.possible_crtcs[i]>>,
                      encoder_path \o <<"possible_crtcs", encoder.possible_crtcs[i]>>)]

ConnectorSteps(device, connector) ==
    LET connector_path == path(device) \o <<"connectors", connector.name>>
    IN  << MkDir(connector_path),
           Write(connector_path \o <<"status">>, ConnectorStatusBytes(connector.status)) >>
        \o [i \in DOMAIN connector.possible_encoders |->
              Symlink(path(device) \o <<"encoders", connector.possible_encoders[i]>>,
                      connector_path \o <<"possible_encoders", connector.possible_encoders[i]>>)]

DeviceStep(device) == << MkDir(path(device)) >>

EnabledStep(device) ==
    << Write(path(device) \o <<"enabled">>, BoolBytes(device.enabled)) >>

AllCrtcSteps(device) ==
    Concat([i \in DOMAIN device.crtcs |-> CrtcSteps(device, device.crtcs[i])])

AllPlaneSteps(device) ==
    Concat([i \in DOMAIN device.planes |-> PlaneSteps(device, device.planes[i])])

AllEncoderSteps(device) ==
    Concat([i \in DOMAIN device.encoders |-> EncoderSteps(device, device.encoders[i])])

AllConnectorSteps(device) ==
    Concat([i \in DOMAIN device.connectors |-> ConnectorSteps(device, device.connectors[i])])

\* Mutant of build: `enabled` is written as soon as the device directory exists.
build_EnabledFirst(device) ==
    DeviceStep(device) \o EnabledStep(device) \o AllCrtcSteps(device)
    \o AllPlaneSteps(device) \o AllEncoderSteps(device) \o AllConnectorSteps(device)

\* Mutant of build: the planes loop runs before the CRTCs loop, as in from_fs.
build_PlanesFirst(device) ==
    DeviceStep(device) \o AllPlaneSteps(device) \o AllCrtcSteps(device)
    \o AllEncoderSteps(device) \o AllConnectorSteps(device) \o EnabledStep(device)

\* VkmsDeviceBuilder::build: its filesystem calls in program order.  Each call is
\* followed by `?`, so the first failing call ends build().
build(device) ==
    DeviceStep(device) \o AllCrtcSteps(device) \o AllPlaneSteps(device)
    \o AllEncoderSteps(device) \o AllConnectorSteps(device) \o EnabledStep(device)

RECURSIVE Run(_, _, _)
\* The tree after the first n calls of `steps`, all of them succeeding.
Run(tree, steps, n) ==
    IF n = 0 THEN tree
    ELSE Apply(Run(tree, steps, n - 1), steps[n]).fs

\* ------------------------------------------------------------ reading

Good(v) == [ok |-> TRUE, val |-> v]
Bad(kind) == [ok |-> FALSE, err |-> kind]

\* fs::read_to_string
read_to_string(tree, p) ==
    IF ~Exists(tree, p) THEN Bad("NotFound")
    ELSE IF tree[p].kind # "file" THEN Bad("IsADirectory")
    ELSE Good(tree[p].data)

\* The names found in directory p.
Children(tree, p) ==
    {q[Len(p) + 1] : q \in {r \in DOMAIN tree : Len(r) = Len(p) + 1 /\ IsPrefix(p, r)}}

\* fs::read_dir: the entries of p; their order is the filesystem's.
read_dir(tree, p) ==
    IF ~Exists(tree, p) THEN Bad("NotFound")
    ELSE IF tree[p].kind # "dir" THEN Bad("NotADirectory")
    ELSE Good(Children(tree, p))

\* fs::read_link
read_link(tree, p) ==
    IF ~Exists(tree, p) THEN Bad("NotFound")
    ELSE IF tree[p].kind # "link" THEN Bad("InvalidInput")
    ELSE Good(tree[p].target)

\* Path::file_name: the final component of the path.
file_name(target) == target[Len(target)]

WhiteSpace == {" ", "\n", "\t"}

RECURSIVE TrimStart(_)
TrimStart(s) ==
    IF s # <<>> /\ Head(s) \in WhiteSpace THEN TrimStart(Tail(s)) ELSE s

RECURSIVE TrimEnd(_)
TrimEnd(s) ==
    IF s # <<>> /\ s[Len(s)] \in WhiteSpace THEN TrimEnd(SubSeq(s, 1, Len(s) - 1)) ELSE s

\* str::trim
trim(s) == TrimEnd(TrimStart(s))

\* The index of the first failed result of a sequence of results, 0 when all are good.
FirstBad(rs) ==
    IF \A i \in DOMAIN rs : rs[i].ok THEN 0
    ELSE CHOOSE i \in DOMAIN rs : ~rs[i].ok /\ \A j \in 1..(i - 1) : rs[j].ok

\* `for x in ... { ...? }`: the values in order, or the first error.
Collect(rs) ==
    IF FirstBad(rs) = 0 THEN Good([i \in DOMAIN rs |-> rs[i].val])
    ELSE Bad(rs[FirstBad(rs)].err)

\* The loop over a possible_crtcs / possible_encoders directory: every outcome,
\* one per order in which read_dir may yield the links.
LinkNames(tree, links_path) ==
    LET entries == read_dir(tree, links_path)
    IN  IF ~entries.ok THEN {Bad(entries.err)}
        ELSE {Collect([i \in DOMAIN e |->
                  LET target == read_link(tree, links_path \o <<e[i]>>)
                  IN  IF target.ok THEN Good(file_name(target.val)) ELSE target])
              : e \in Enum(entries.val)}

\* Mutant of PlaneKindFromStr: the 1-based numbering of the connector status.
PlaneKindFromStr_OneBased(s) ==
    CASE trim(s) = <<"1">> -> Good("Overlay")
      [] trim(s) = <<"2">> -> Good("Primary")
      [] trim(s) = <<"3">> -> Good("Cursor")
      [] OTHER -> Bad("InvalidData")

\* PlaneConfig::from_fs: match kind_str.trim()
PlaneKindFromStr(s) ==
    CASE trim(s) = <<"0">> -> Good("Overlay")
      [] trim(s) = <<"1">> -> Good("Primary")
      [] trim(s) = <<"2">> -> Good("Cursor")
      [] OTHER -> Bad("InvalidData")

\* Mutant of ConnectorStatusFromStr: the 0-based numbering of the plane type.
ConnectorStatusFromStr_ZeroBased(s) ==
    CASE trim(s) = <<"0">> -> Good("Connected")
      [] trim(s) = <<"1">> -> Good("Disconnected")
      [] trim(s) = <<"2">> -> Good("Unknown")
      [] OTHER -> Bad("InvalidData")

\* ConnectorConfig::from_fs: match status.trim()
ConnectorStatusFromStr(s) ==
    CASE trim(s) = <<"1">> -> Good("Connected")
      [] trim(s) = <<"2">> -> Good("Disconnected")
      [] trim(s) = <<"3">> -> Good("Unknown")
      [] OTHER -> Bad("InvalidData")

\* Mutant of BoolFromStr: the content is compared without trimming it.
BoolFromStr_Exact(s) == s = <<"1">>

\* from_fs: enabled.trim() == "1", and CrtcConfig::from_fs the same for writeback
BoolFromStr(s) == trim(s) = <<"1">>

\* PlaneConfig::from_fs: every outcome.
PlaneConfig_from_fs(tree, planes_path, name) ==
    LET plane_path == planes_path \o <<name>>
        kind_str == read_to_string(tree, plane_path \o <<"type">>)
        kind == PlaneKindFromStr(kind_str.val)
    IN  IF ~kind_str.ok THEN {Bad(kind_str.err)}
        ELSE IF ~kind.ok THEN {kind}
        ELSE {IF l.ok
              THEN Good([name |-> name, kind |-> kind.val, possible_crtcs |-> l.val])
              ELSE l
              : l \in LinkNames(tree, plane_path \o <<"possible_crtcs">>)}

\* Mutant of CrtcConfig_from_fs: the writeback read is never stored in the CRTC.
CrtcConfig_from_fs_Default(tree, crtcs_path, name) ==
    LET writeback == read_to_string(tree, crtcs_path \o <<name, "writeback">>)
    IN  IF ~writeback.ok THEN {Bad(writeback.err)}
        ELSE {Good(CrtcConfig_new(name))}

\* CrtcConfig::from_fs
CrtcConfig_from_fs(tree, crtcs_path, name) ==
    LET writeback == read_to_string(tree, crtcs_path \o <<name, "writeback">>)
    IN  IF ~writeback.ok THEN {Bad(writeback.err)}
        ELSE {Good([name |-> name, is_writeback_enabled |-> BoolFromStr(writeback.val)])}

\* EncoderConfig::from_fs
EncoderConfig_from_fs(tree, encoders_path, name) ==
    {IF l.ok THEN Good([name |-> name, possible_crtcs |-> l.val]) ELSE l
     : l \in LinkNames(tree, encoders_path \o <<name, "possible_crtcs">>)}

\* ConnectorConfig::from_fs
ConnectorConfig_from_fs(tree, connectors_path, name) ==
    LET connector_path == connectors_path \o <<name>>
        status_str == read_to_string(tree, connector_path \o <<"status">>)
        status == ConnectorStatusFromStr(status_str.val)
    IN  IF ~status_str.ok THEN {Bad(status_str.err)}
        ELSE IF ~status.ok THEN {status}
        ELSE {IF l.ok
              THEN Good([name |-> name, status |-> status.val, possible_encoders |-> l.val])
              ELSE l
              : l \in LinkNames(tree, connector_path \o <<"possible_encoders">>)}

\* One `for x_dir in fs::read_dir(dir)? { X::from_fs(dir, name)? }` loop of from_fs:
\* every outcome, over the orders of read_dir and the outcomes of each entry.
LoadAll(tree, dir, from_fs_one(_, _, _)) ==
    LET entries == read_dir(tree, dir)
    IN  IF ~entries.ok THEN {Bad(entries.err)}
        ELSE UNION {
               {Collect(rs) :
                  rs \in {r \in [DOMAIN e -> UNION {from_fs_one(tree, dir, x) : x \in entries.val}] :
                            \A i \in DOMAIN e : r[i] \in from_fs_one(tree, dir, e[i])}}
               : e \in Enum(entries.val)}

\* VkmsDeviceBuilder::from_fs: every outcome.  The loops run planes, CRTCs,
\* encoders, connectors, and the first error ends the load.
from_fs(tree, name) ==
    LET device == VkmsDeviceBuilder_new(name)
        enabled == read_to_string(tree, path(device) \o <<"enabled">>)
    IN  IF ~enabled.ok THEN {Bad(enabled.err)}
        ELSE {IF ~ps.ok THEN ps
              ELSE IF ~cs.ok THEN cs
              ELSE IF ~es.ok THEN es
              ELSE IF ~ns.ok THEN ns
              ELSE Good([device EXCEPT !.enabled = BoolFromStr(enabled.val),
                                       !.planes = ps.val, !.crtcs = cs.val,
                                       !.encoders = es.val, !.connectors = ns.val])
              : ps \in LoadAll(tree, path(device) \o <<"planes">>, PlaneConfig_from_fs),
                cs \in LoadAll(tree, path(device) \o <<"crtcs">>, CrtcConfig_from_fs),
                es \in LoadAll(tree, path(device) \o <<"encoders">>, EncoderConfig_from_fs),
                ns \in LoadAll(tree, path(device) \o <<"connectors">>, ConnectorConfig_from_fs)}

\* Mutant of remove: a recursive delete that follows the symlinks it meets.
remove_FollowLinks(tree, device) ==
    LET gone == {r \in DOMAIN tree : IsPrefix(path(device), r)}
        targets == {tree[r].target : r \in {q \in gone : tree[q].kind = "link"}}
    IN  Ok([q \in {r \in DOMAIN tree :
                     r \notin gone /\ \A t \in targets : ~IsPrefix(t, r)} |-> tree[q]])

\* VkmsDeviceBuilder::remove: the device's whole tree is deleted, links as links.
remove(tree, device) ==
    Ok([q \in {r \in DOMAIN tree : ~IsPrefix(path(device), r)} |-> tree[q]])

\* ------------------------------------------------------------ inputs

\* The reference pipeline: one CRTC, one primary plane, one encoder, one connector.
BaseDevice ==
    [name |-> "d0", enabled |-> TRUE,
     planes |-> << [name |-> "p0", kind |-> "Primary", possible_crtcs |-> <<"c0">>] >>,
     crtcs |-> << [name |-> "c0", is_writeback_enabled |-> FALSE] >>,
     encoders |-> << [name |-> "e0", possible_crtcs |-> <<"c0">>] >>,
     connectors |-> << [name |-> "n0", status |-> "Connected", possible_encoders |-> <<"e0">>] >>]

RemoveAt(s, i) == SubSeq(s, 1, i - 1) \o SubSeq(s, i + 1, Len(s))

\* The device models one builder call away from m: a field set through its
\* setter, an entity or a reference added, or one left out.
Edits(m) ==
    {[m EXCEPT !.name = d] : d \in Devs}
    \cup {[m EXCEPT !.enabled = ~@]}
    \cup {[m EXCEPT !.crtcs = RemoveAt(@, i)] : i \in DOMAIN m.crtcs}
    \cup {add_crtc(m, CrtcConfig_new(c)) : c \in CrtcNames}
    \cup {[m EXCEPT !.crtcs[i].is_writeback_enabled = ~@] : i \in DOMAIN m.crtcs}
    \cup {[m EXCEPT !.planes = RemoveAt(@, i)] : i \in DOMAIN m.planes}
    \cup {add_plane(m, PlaneConfig_new(p)) : p \in PlaneNames}
    \cup {[m EXCEPT !.planes[i].kind = k] : i \in DOMAIN m.planes, k \in PlaneKind}
    \cup {[m EXCEPT !.planes[i].possible_crtcs = Append(@, c)] :
            i \in DOMAIN m.planes, c \in CrtcNames}
    \cup {[m EXCEPT !.planes[i].possible_crtcs = <<>>] : i \in DOMAIN m.planes}
    \cup {[m EXCEPT !.encoders = RemoveAt(@, i)] : i \in DOMAIN m.encoders}
    \cup {add_encoder(m, EncoderConfig_new(e)) : e \in EncoderNames}
    \cup {[m EXCEPT !.encoders[i].possible_crtcs = Append(@, c)] :
            i \in DOMAIN m.encoders, c \in CrtcNames}
    \cup {[m EXCEPT !.encoders[i].possible_crtcs = <<>>] : i \in DOMAIN m.encoders}
    \cup {[m EXCEPT !.connectors = RemoveAt(@, i)] : i \in DOMAIN m.connectors}
    \cup {add_connector(m, ConnectorConfig_new(n)) : n \in ConnectorNames}
    \cup {[m EXCEPT !.connectors[i].status = s] :
            i \in DOMAIN m.connectors, s \in ConnectorStatus}
    \cup {[m EXCEPT !.connectors[i].possible_encoders = Append(@, e)] :
            i \in DOMAIN m.connectors, e \in EncoderNames}
    \cup {[m EXCEPT !.connectors[i].possible_encoders = <<>>] : i \in DOMAIN m.connectors}

RECURSIVE Within(_)
Within(n) ==
    IF n = 0 THEN {BaseDevice}
    ELSE LET W == Within(n - 1) IN W \cup UNION {Edits(m) : m \in W}

\* The device models handed to build().
Models == Within(MaxEdits)

\* The JSON document (ConfigValidator) that describes device model m.  With
\* `explicit` every optional field is given; without it a field is left out
\* (None) when the model holds that field's default.
ToConfig(m, explicit) ==
    LET Opt(v, default) == IF ~explicit /\ v = default THEN None ELSE Some(v)
        Lower(k) == CASE k = "Overlay" -> "overlay"
                      [] k = "Primary" -> "primary"
                      [] k = "Cursor" -> "cursor"
        Refs(r) == IF r = <<>> THEN None ELSE Some(r)
    IN  [name |-> m.name, enabled |-> m.enabled,
         planes |-> [i \in DOMAIN m.planes |->
             [name |-> m.planes[i].name,
              type |-> Opt(Lower(m.planes[i].kind), "overlay"),
              possible_crtcs |-> Refs(m.planes[i].possible_crtcs)]],
         crtcs |-> [i \in DOMAIN m.crtcs |->
             [name |-> m.crtcs[i].name,
              writeback |-> Opt(m.crtcs[i].is_writeback_enabled, FALSE)]],
         encoders |-> [i \in DOMAIN m.encoders |->
             [name |-> m.encoders[i].name,
              possible_crtcs |-> Refs(m.encoders[i].possible_crtcs)]],
         connectors |-> [i \in DOMAIN m.connectors |->
             [name |-> m.connectors[i].name,
              possible_encoders |-> Refs(m.connectors[i].possible_encoders)]]]

\* The validated configurations handed to create_vkms_device: ConnectorValidator
\* has no status field, so only models with every connector Connected have one.
Configs ==
    {ToConfig(m, explicit) :
       m \in {x \in Models : \A i \in DOMAIN x.connectors :
                               x.connectors[i].status = "Connected"},
       explicit \in BOOLEAN}

\* ------------------------------------------------------------ configuration adapter

\* Mutant of PlaneFromConfig: the arms of "primary" and "overlay" are swapped.
PlaneFromConfig_Swapped(plane_config) ==
    LET plane == PlaneConfig_new(plane_config.name)
        typed ==
            CASE plane_config.type = None -> Good(plane)
              [] plane_config.type = Some("primary") -> Good([plane EXCEPT !.kind = "Overlay"])
              [] plane_config.type = Some("overlay") -> Good([plane EXCEPT !.kind = "Primary"])
              [] plane_config.type = Some("cursor") -> Good([plane EXCEPT !.kind = "Cursor"])
              [] OTHER -> Bad("InvalidData")
    IN  IF ~typed.ok \/ plane_config.possible_crtcs = None THEN typed
        ELSE Good([typed.val EXCEPT !.possible_crtcs = plane_config.possible_crtcs.val])

\* create_vkms_device_builder: the plane loop's body
PlaneFromConfig(plane_config) ==
    LET plane == PlaneConfig_new(plane_config.name)
        typed ==
            CASE plane_config.type = None -> Good(plane)
              [] plane_config.type = Some("primary") -> Good([plane EXCEPT !.kind = "Primary"])
              [] plane_config.type = Some("overlay") -> Good([plane EXCEPT !.kind = "Overlay"])
              [] plane_config.type = Some("cursor") -> Good([plane EXCEPT !.kind = "Cursor"])
              [] OTHER -> Bad("InvalidData")
    IN  IF ~typed.ok \/ plane_config.possible_crtcs = None THEN typed
        ELSE Good([typed.val EXCEPT !.possible_crtcs = plane_config.possible_crtcs.val])

CrtcFromConfig(crtc_config) ==
    IF crtc_config.writeback = None THEN CrtcConfig_new(crtc_config.name)
    ELSE [CrtcConfig_new(crtc_config.name) EXCEPT
            !.is_writeback_enabled = crtc_config.writeback.val]

EncoderFromConfig(encoder_config) ==
    IF encoder_config.possible_crtcs = None THEN EncoderConfig_new(encoder_config.name)
    ELSE [EncoderConfig_new(encoder_config.name) EXCEPT
            !.possible_crtcs = encoder_config.possible_crtcs.val]

ConnectorFromConfig(connector_config) ==
    IF connector_config.possible_encoders = None
    THEN ConnectorConfig_new(connector_config.name)
    ELSE [ConnectorConfig_new(connector_config.name) EXCEPT
            !.possible_encoders = connector_config.possible_encoders.val]

\* create_vkms_device_builder: the builder for a configuration, or the error of
\* an unknown plane type.  No reference is looked up.
create_vkms_device_builder(config) ==
    LET planes == Collect([i \in DOMAIN config.planes |-> PlaneFromConfig(config.planes[i])])
    IN  IF ~planes.ok THEN planes
        ELSE Good([VkmsDeviceBuilder_new(config.name) EXCEPT
                     !.enabled = config.enabled,
                     !.planes = planes.val,
                     !.crtcs = [i \in DOMAIN config.crtcs |-> CrtcFromConfig(config.crtcs[i])],
                     !.encoders =
                         [i \in DOMAIN config.encoders |-> EncoderFromConfig(config.encoders[i])],
                     !.connectors =
                         [i \in DOMAIN config.connectors |->
                            ConnectorFromConfig(config.connectors[i])]])

\* ------------------------------------------------------------ initial trees

EmptyTree == (<<>> :> Dir)

\* A device materialized earlier by build().
ExistingDevice(d) == [BaseDevice EXCEPT !.name = d]

ExistingTree(d) == Run(EmptyTree, build(ExistingDevice(d)), Len(build(ExistingDevice(d))))

Init ==
    /\ fs \in {EmptyTree} \cup {ExistingTree(d) : d \in Devs}
    /\ fs0 = fs
    /\ pc = "idle"
    /\ dev = NoDevice
    /\ cli = FALSE
    /\ step = 0
    /\ out = NoOutcome
    /\ peer = NoPeer

\* ------------------------------------------------------------ operations

\* A library client calls build() on a builder it made.
StartBuild ==
    /\ pc = "idle"
    /\ \E m \in Models : dev' = m
    /\ cli' = FALSE
    /\ pc' = "build"
    /\ step' = 1
    /\ fs0' = fs
    /\ out' = NoOutcome
    /\ UNCHANGED <<fs, peer>>

\* create_vkms_device: the adapter, then build() unless the adapter failed.
StartCreate ==
    /\ pc = "idle"
    /\ \E config \in Configs :
         LET builder == create_vkms_device_builder(config)
         IN  IF builder.ok
             THEN dev' = builder.val /\ pc' = "build" /\ step' = 1
             ELSE dev' = NoDevice /\ pc' = "err" /\ step' = 0
    /\ cli' = TRUE
    /\ fs0' = fs
    /\ out' = NoOutcome
    /\ UNCHANGED <<fs, peer>>

\* build(): its next filesystem call.  `?` returns the call's error at once.
BuildStep ==
    /\ pc = "build"
    /\ LET r == Apply(fs, build(dev)[step])
       IN  IF r.ok
           THEN /\ fs' = r.fs
                /\ step' = step + 1
                /\ pc' = IF step = Len(build(dev)) THEN "ok" ELSE "build"
           ELSE /\ pc' = "err"
                /\ UNCHANGED <<fs, step>>
    /\ UNCHANGED <<fs0, dev, cli, out, peer>>

\* Mutant of BuildStepFails: the failing build removes what it created.
BuildStepFails_Rollback ==
    /\ pc = "build"
    /\ pc' = "err"
    /\ fs' = fs0
    /\ UNCHANGED <<fs0, dev, cli, step, out, peer>>

\* build(): its next filesystem call fails with an I/O error of the system.
BuildStepFails ==
    /\ pc = "build"
    /\ pc' = "err"
    /\ UNCHANGED <<fs, fs0, dev, cli, step, out, peer>>

\* VkmsDeviceBuilder::from_fs on a device name.
Load ==
    /\ pc # "build"
    /\ \E d \in Devs : \E r \in from_fs(fs, d) :
         out' = [cmd |-> "from_fs", name |-> d, existed |-> Exists(fs, <<d>>), res |-> r]
    /\ UNCHANGED <<fs, fs0, pc, dev, cli, step, peer>>

\* Mutant of remove_vkms_device: the error of from_fs is dropped and the device
\* of that name is removed all the same.
remove_vkms_device_Force ==
    /\ pc # "build"
    /\ \E d \in Devs : \E r \in from_fs(fs, d) :
         LET removed == remove(fs, IF r.ok THEN r.val ELSE VkmsDeviceBuilder_new(d))
         IN  /\ fs' = removed.fs
             /\ out' = [cmd |-> "remove", name |-> d, existed |-> Exists(fs, <<d>>),
                        aborted |-> pc = "err" /\ dev # NoDevice /\ dev.name = d
                                    /\ ~Exists(fs0, <<d>>) /\ step > 1,
                        res |-> IF removed.ok THEN Good(TRUE) ELSE Bad(removed.err)]
    /\ pc' = "end"
    /\ dev' = NoDevice
    /\ cli' = FALSE
    /\ step' = 0
    /\ fs0' = fs
    /\ UNCHANGED peer

\* remove_vkms_device: from_fs(...)? and then device.remove().  The command is a
\* process of its own: no builder of an earlier create is left.
remove_vkms_device ==
    /\ pc # "build"
    /\ \E d \in Devs : \E r \in from_fs(fs, d) :
         LET removed == IF r.ok THEN remove(fs, r.val) ELSE Err(r.err, fs)
         IN  /\ fs' = removed.fs
             /\ out' = [cmd |-> "remove", name |-> d, existed |-> Exists(fs, <<d>>),
                        aborted |-> pc = "err" /\ dev # NoDevice /\ dev.name = d
                                    /\ ~Exists(fs0, <<d>>) /\ step > 1,
                        res |-> IF removed.ok THEN Good(TRUE) ELSE Bad(removed.err)]
    /\ pc' = "end"
    /\ dev' = NoDevice
    /\ cli' = FALSE
    /\ step' = 0
    /\ fs0' = fs
    /\ UNCHANGED peer

Next ==
    \/ StartBuild
    \/ StartCreate
    \/ BuildStep
    \/ BuildStepFails
    \/ Load
    \/ remove_vkms_device

Spec == Init /\ [][Next]_vars

\* ------------------------------------------------------------ hand-made trees

Chars == {"0", "1", "2", "3", " ", "\n"}

\* Every content of at most MaxContentLen characters.
Contents == UNION {[1..n -> Chars] : n \in 0..MaxContentLen}

\* The tree of device d1 with its plane's type and its connector's status
\* holding contents that something other than build() wrote.
HandMadeTree(type, status) ==
    (<<"d1", "planes", "p0", "type">> :> File(type))
    @@ (<<"d1", "connectors", "n0", "status">> :> File(status))
    @@ ExistingTree("d1")

\* The builders of the codec runs: every plane kind with every connector status.
CodecModels ==
    {[BaseDevice EXCEPT !.name = "d1", !.planes[1].kind = k, !.connectors[1].status = s] :
       k \in PlaneKind, s \in ConnectorStatus}

InitCodec ==
    /\ fs \in {EmptyTree}
         \cup {HandMadeTree(c, <<"1">>) : c \in Contents}
         \cup {HandMadeTree(<<"1">>, c) : c \in Contents}
    /\ fs0 = fs
    /\ pc = "idle"
    /\ dev = NoDevice
    /\ cli = FALSE
    /\ step = 0
    /\ out = NoOutcome
    /\ peer = NoPeer

\* A library client calls build() on one of the codec builders.
StartBuildCodec ==
    /\ pc = "idle"
    /\ \E m \in CodecModels : dev' = m
    /\ cli' = FALSE
    /\ pc' = "build"
    /\ step' = 1
    /\ fs0' = fs
    /\ out' = NoOutcome
    /\ UNCHANGED <<fs, peer>>

NextCodec ==
    \/ StartBuildCodec
    \/ BuildStep
    \/ BuildStepFails
    \/ Load
    \/ remove_vkms_device

SpecCodec == InitCodec /\ [][NextCodec]_vars

\* ------------------------------------------------------------ properties

\* build() is running or has ended, on a tree that did not hold the device.
Materializing ==
    /\ pc \in {"build", "ok", "err"}
    /\ dev # NoDevice
    /\ ~Exists(fs0, path(dev))

HasData(tree, p, data) ==
    Exists(tree, p) /\ tree[p].kind = "file" /\ tree[p].data = data

IsLink(tree, p) == Exists(tree, p) /\ tree[p].kind = "link"

IsFile(tree, p) == Exists(tree, p) /\ tree[p].kind = "file"

\* Every directory, attribute file and symlink of the device's topology is in the tree.
TopologyComplete(tree, device) ==
    LET d == <<device.name>>
    IN  /\ \A i \in DOMAIN device.crtcs :
              /\ IsDir(tree, d \o <<"crtcs", device.crtcs[i].name>>)
              /\ Exists(tree, d \o <<"crtcs", device.crtcs[i].name, "writeback">>)
        /\ \A i \in DOMAIN device.planes :
              /\ IsDir(tree, d \o <<"planes", device.planes[i].name>>)
              /\ Exists(tree, d \o <<"planes", device.planes[i].name, "type">>)
              /\ \A j \in DOMAIN device.planes[i].possible_crtcs :
                    IsLink(tree, d \o <<"planes", device.planes[i].name, "possible_crtcs",
                                        device.planes[i].possible_crtcs[j]>>)
        /\ \A i \in DOMAIN device.encoders :
              /\ IsDir(tree, d \o <<"encoders", device.encoders[i].name>>)
              /\ \A j \in DOMAIN device.encoders[i].possible_crtcs :
                    IsLink(tree, d \o <<"encoders", device.encoders[i].name, "possible_crtcs",
                                        device.encoders[i].possible_crtcs[j]>>)
        /\ \A i \in DOMAIN device.connectors :
              /\ IsDir(tree, d \o <<"connectors", device.connectors[i].name>>)
              /\ Exists(tree, d \o <<"connectors", device.connectors[i].name, "status">>)
              /\ \A j \in DOMAIN device.connectors[i].possible_encoders :
                    IsLink(tree, d \o <<"connectors", device.connectors[i].name,
                                        "possible_encoders",
                                        device.connectors[i].possible_encoders[j]>>)

Names(entities) == {entities[i].name : i \in DOMAIN entities}

\* Every possible_crtcs / possible_encoders name is the name of an entity of the device.
ConsistentRefs(device) ==
    /\ \A i \in DOMAIN device.planes :
          Range(device.planes[i].possible_crtcs) \subseteq Names(device.crtcs)
    /\ \A i \in DOMAIN device.encoders :
          Range(device.encoders[i].possible_crtcs) \subseteq Names(device.crtcs)
    /\ \A i \in DOMAIN device.connectors :
          Range(device.connectors[i].possible_encoders) \subseteq Names(device.encoders)

\* C1: while build() materializes a device, and after it ended or aborted, the
\* device's `enabled` holds "1" only if every CRTC, plane, encoder and connector
\* directory, attribute file and symlink of the device is in the tree.
C1_EnabledWrittenLast ==
    (Materializing /\ HasData(fs, path(dev) \o <<"enabled">>, <<"1">>))
        => TopologyComplete(fs, dev)

\* C1 witness: a finished build of a device with entities whose `enabled` holds "1".
C1_Witness ==
    /\ Materializing
    /\ pc = "ok"
    /\ HasData(fs, path(dev) \o <<"enabled">>, <<"1">>)
    /\ dev.crtcs # <<>> /\ dev.planes # <<>> /\ dev.encoders # <<>> /\ dev.connectors # <<>>

\* The two device models hold the same entities with the same fields, the
\* collections and the reference lists compared as sets.
SameDevice(a, b) ==
    /\ a.name = b.name
    /\ a.enabled = b.enabled
    /\ Range(a.crtcs) = Range(b.crtcs)
    /\ {[name |-> x.name, kind |-> x.kind, refs |-> Range(x.possible_crtcs)] :
          x \in Range(a.planes)}
       = {[name |-> x.name, kind |-> x.kind, refs |-> Range(x.possible_crtcs)] :
          x \in Range(b.planes)}
    /\ {[name |-> x.name, refs |-> Range(x.possible_crtcs)] : x \in Range(a.encoders)}
       = {[name |-> x.name, refs |-> Range(x.possible_crtcs)] : x \in Range(b.encoders)}
    /\ {[name |-> x.name, status |-> x.status, refs |-> Range(x.possible_encoders)] :
          x \in Range(a.connectors)}
       = {[name |-> x.name, status |-> x.status, refs |-> Range(x.possible_encoders)] :
          x \in Range(b.connectors)}

\* C2: when build() has materialized device model M on a tree without that
\* device, from_fs of the same name succeeds and yields a device equal to M in
\* name, enabled, CRTCs, planes, encoders and connectors, compared as sets.
C2_RoundTrip ==
    (pc = "ok" /\ out.cmd = "from_fs" /\ out.name = dev.name)
        => (out.res.ok /\ SameDevice(out.res.val, dev))

\* C2 witness: a device with entities and references was built and loaded back.
C2_Witness ==
    /\ pc = "ok" /\ out.cmd = "from_fs" /\ out.name = dev.name /\ out.res.ok
    /\ ConsistentRefs(dev)
    /\ \E i \in DOMAIN dev.planes : dev.planes[i].possible_crtcs # <<>>
    /\ \E i \in DOMAIN dev.connectors : dev.connectors[i].possible_encoders # <<>>

\* C3 as claimed: a configuration with a reference to an undeclared CRTC or
\* encoder makes create_vkms_device fail in the adapter, before build() runs and
\* with the tree as it was.
C3_DanglingConfigRejected ==
    (cli /\ dev # NoDevice /\ ~ConsistentRefs(dev))
        => (pc = "err" /\ step = 0 /\ fs = fs0)

\* C4: while build() materializes a device whose references are consistent, every
\* symlink in the tree points at a directory that is already in the tree.
C4_LinkTargetsExist ==
    (pc \in {"build", "ok", "err"} /\ dev # NoDevice /\ ConsistentRefs(dev))
        => \A p \in DOMAIN fs : fs[p].kind = "link" => IsDir(fs, fs[p].target)

\* C4 witness: build() is still running and has already made a symlink.
C4_Witness ==
    /\ Materializing /\ pc = "build" /\ ConsistentRefs(dev)
    /\ \E p \in DOMAIN fs : fs[p].kind = "link" /\ IsPrefix(path(dev), p)

C8_ExistingDeviceUntouched ==
    (pc \in {"build", "ok", "err"} /\ dev # NoDevice /\ Exists(fs0, path(dev)))
        => (pc # "ok" /\ step = 1 /\ fs = fs0)

\* C8 witness: build() failed on an existing, enabled device.
C8_Witness ==
    /\ pc = "err" /\ dev # NoDevice /\ Exists(fs0, path(dev))
    /\ HasData(fs, path(dev) \o <<"enabled">>, <<"1">>)

\* C9: when build() has failed, the failing call is one of its calls, and the
\* tree holds the effects of exactly the calls before it: none after it, and
\* nothing undone.
C9_AbortKeepsPrefix ==
    (pc = "err" /\ dev # NoDevice)
        => (step \in 1..Len(build(dev)) /\ fs = Run(fs0, build(dev), step - 1))

\* C9 witness: build() failed after it had created entities.
C9_Witness ==
    pc = "err" /\ dev # NoDevice /\ step > 3 /\ fs # fs0

\* C10: after build() the device's `enabled` holds "1" when the builder's
\* enabled is true and "0" when it is false, and every CRTC's `writeback` holds
\* "1" when its writeback is enabled and "0" otherwise.
C10_BooleanEncoding ==
    pc = "ok" =>
        /\ HasData(fs, path(dev) \o <<"enabled">>,
                   IF dev.enabled THEN <<"1">> ELSE <<"0">>)
        /\ \A i \in DOMAIN dev.crtcs :
              HasData(fs, path(dev) \o <<"crtcs", dev.crtcs[i].name, "writeback">>,
                      IF dev.crtcs[i].is_writeback_enabled THEN <<"1">> ELSE <<"0">>)

\* C10 witness: a device that is not enabled was built.
C10_Witness ==
    pc = "ok" /\ ~dev.enabled /\ dev.crtcs # <<>>

\* Content c is the one character v, with nothing but white space around it.
Padded(c, v) ==
    \E a \in 1..Len(c) :
        /\ c[a] = v
        /\ \A k \in (1..Len(c)) \ {a} : c[k] \in {" ", "\n", "\t"}

\* The wire encoding of the plane type and of the connector status, as documented.
KindDigit == [k \in PlaneKind |->
    IF k = "Overlay" THEN "0" ELSE IF k = "Primary" THEN "1" ELSE "2"]

StatusDigit == [t \in ConnectorStatus |->
    IF t = "Connected" THEN "1" ELSE IF t = "Disconnected" THEN "2" ELSE "3"]

\* The content of planes/<n>/type and of connectors/<n>/status of device d.
TypeOf(d, n) == fs[<<d, "planes", n, "type">>].data
StatusOf(d, n) == fs[<<d, "connectors", n, "status">>].data

\* build() leaves in every plane's type the digit of the plane's kind.
TypesWritten ==
    pc = "ok" => \A i \in DOMAIN dev.planes :
        HasData(fs, <<dev.name, "planes", dev.planes[i].name, "type">>,
                <<KindDigit[dev.planes[i].kind]>>)

\* build() leaves in every connector's status the digit of the connector's status.
StatusesWritten ==
    pc = "ok" => \A i \in DOMAIN dev.connectors :
        HasData(fs, <<dev.name, "connectors", dev.connectors[i].name, "status">>,
                <<StatusDigit[dev.connectors[i].status]>>)

\* C6 as claimed: build() writes the kind's digit, and from_fs yields the kind of
\* the digit when the type file holds exactly "0", "1" or "2" and fails with
\* InvalidData on every other content.
C6_ExactPlaneKind ==
    /\ TypesWritten
    /\ (out.cmd = "from_fs" /\ out.existed) =>
          /\ (\E n \in Children(fs, <<out.name, "planes">>) :
                 TypeOf(out.name, n) \notin {<<"0">>, <<"1">>, <<"2">>})
                => (~out.res.ok /\ out.res.err = "InvalidData")
          /\ out.res.ok => \A i \in DOMAIN out.res.val.planes :
                 TypeOf(out.name, out.res.val.planes[i].name)
                     = <<KindDigit[out.res.val.planes[i].kind]>>

\* C6 amended: build() writes the kind's digit, and from_fs yields the kind of
\* the digit when the type file holds "0", "1" or "2" with nothing but white space
\* around it, and fails with InvalidData on every other content.
C6_PlaneKindCodec ==
    /\ TypesWritten
    /\ (out.cmd = "from_fs" /\ out.existed) =>
          /\ (\E n \in Children(fs, <<out.name, "planes">>) :
                 \A v \in {"0", "1", "2"} : ~Padded(TypeOf(out.name, n), v))
                => (~out.res.ok /\ out.res.err = "InvalidData")
          /\ out.res.ok => \A i \in DOMAIN out.res.val.planes :
                 Padded(TypeOf(out.name, out.res.val.planes[i].name),
                        KindDigit[out.res.val.planes[i].kind])

\* C6 witness: a load failed with InvalidData on a plane type that is no digit of a kind.
C6_Witness ==
    /\ out.cmd = "from_fs" /\ out.existed
    /\ ~out.res.ok /\ out.res.err = "InvalidData"
    /\ \E n \in Children(fs, <<out.name, "planes">>) :
          \A v \in {"0", "1", "2"} : ~Padded(TypeOf(out.name, n), v)

\* C7 as claimed: build() writes the status's digit, and from_fs yields the
\* status of the digit when the status file holds exactly "1", "2" or "3" and
\* fails on every other content.
C7_ExactConnectorStatus ==
    /\ StatusesWritten
    /\ (out.cmd = "from_fs" /\ out.existed) =>
          /\ (\E n \in Children(fs, <<out.name, "connectors">>) :
                 StatusOf(out.name, n) \notin {<<"1">>, <<"2">>, <<"3">>})
                => ~out.res.ok
          /\ out.res.ok => \A i \in DOMAIN out.res.val.connectors :
                 StatusOf(out.name, out.res.val.connectors[i].name)
                     = <<StatusDigit[out.res.val.connectors[i].status]>>

\* C7 amended: build() writes the status's digit, and from_fs yields the status
\* of the digit when the status file holds "1", "2" or "3" with nothing but white
\* space around it, and fails on every other content, "0" included.
C7_ConnectorStatusCodec ==
    /\ StatusesWritten
    /\ (out.cmd = "from_fs" /\ out.existed) =>
          /\ (\E n \in Children(fs, <<out.name, "connectors">>) :
                 \A v \in {"1", "2", "3"} : ~Padded(StatusOf(out.name, n), v))
                => (~out.res.ok /\ out.res.err = "InvalidData")
          /\ out.res.ok => \A i \in DOMAIN out.res.val.connectors :
                 Padded(StatusOf(out.name, out.res.val.connectors[i].name),
                        StatusDigit[out.res.val.connectors[i].status])

\* C7 witness: a load failed on a connector whose status file holds "0".
C7_Witness ==
    /\ out.cmd = "from_fs" /\ out.existed /\ ~out.res.ok
    /\ \E n \in Children(fs, <<out.name, "connectors">>) : StatusOf(out.name, n) = <<"0">>

\* ------------------------------------------------------------ loader runs

\* A configfs mount without the vkms directory: the module's group is not there.
NoVkmsTree == [q \in {} |-> Dir]

\* The tree of device d1 with an `enabled` that something other than build() wrote.
HandMadeEnabled(content) ==
    (<<"d1", "enabled">> :> File(content)) @@ ExistingTree("d1")

\* The tree of device d1 without path p and everything below it.
MissingTree(p) ==
    [q \in {r \in DOMAIN ExistingTree("d1") : ~IsPrefix(p, r)} |-> ExistingTree("d1")[q]]

\* The nodes of device d1 that a tree may lack.
MissingPaths ==
    {<<"d1", "enabled">>, <<"d1", "planes">>, <<"d1", "crtcs">>, <<"d1", "encoders">>,
     <<"d1", "connectors">>, <<"d1", "planes", "p0", "type">>,
     <<"d1", "connectors", "n0", "status">>, <<"d1", "crtcs", "c0", "writeback">>}

\* Devices d0 and d1, and a symlink of d1's plane that points into d0's tree.
CrossLinkedTree ==
    (<<"d1", "planes", "p0", "possible_crtcs", "c0">> :> Link(<<"d0", "crtcs", "c0">>))
    @@ ExistingTree("d0") @@ ExistingTree("d1")

InitLoader ==
    /\ fs \in {NoVkmsTree, EmptyTree, CrossLinkedTree}
         \cup {HandMadeTree(<<"3">>, <<"1">>), HandMadeTree(<<"1">>, <<"0">>)}
         \cup {HandMadeEnabled(c) : c \in Contents}
         \cup {MissingTree(p) : p \in MissingPaths}
    /\ fs0 = fs
    /\ pc = "idle"
    /\ dev = NoDevice
    /\ cli = FALSE
    /\ step = 0
    /\ out = NoOutcome
    /\ peer = NoPeer

\* Mutant of list_vkms_devices: finding no device is reported as an error.
list_vkms_devices_NoneIsError ==
    /\ pc # "build"
    /\ \E r \in LoadAll(fs, <<>>, LAMBDA tree, dir, name : from_fs(tree, name)) :
         out' = [cmd |-> "list", res |-> IF r = Good(<<>>) THEN Bad("NotFound") ELSE r]
    /\ UNCHANGED <<fs, fs0, pc, dev, cli, step, peer>>

\* list_vkms_devices: read_dir of <configfs>/vkms, from_fs of every entry, the
\* first error ends the command; the devices are printed afterwards.
list_vkms_devices ==
    /\ pc # "build"
    /\ \E r \in LoadAll(fs, <<>>, LAMBDA tree, dir, name : from_fs(tree, name)) :
         out' = [cmd |-> "list", res |-> r]
    /\ UNCHANGED <<fs, fs0, pc, dev, cli, step, peer>>

NextLoader ==
    \/ Load
    \/ list_vkms_devices
    \/ remove_vkms_device

SpecLoader == InitLoader /\ [][NextLoader]_vars

\* The content of the `enabled` file of device d.
EnabledOf(d) == fs[<<d, "enabled">>].data

\* from_fs of device d succeeds on the tree when its `enabled` holds "1".
LoadsWithEnabledOne(d) ==
    \E r \in from_fs((<<d, "enabled">> :> File(<<"1">>)) @@ fs, d) : r.ok

\* C11 as claimed: from_fs yields enabled = TRUE exactly when `enabled` holds
\* "1", FALSE for every other content, and no content of `enabled` makes a load
\* fail that succeeds with "1".
C11_ExactEnabled ==
    (out.cmd = "from_fs" /\ IsFile(fs, <<out.name, "enabled">>))
        => /\ out.res.ok = LoadsWithEnabledOne(out.name)
           /\ out.res.ok => (out.res.val.enabled = (EnabledOf(out.name) = <<"1">>))

\* C11 amended: from_fs yields enabled = TRUE exactly when `enabled` holds "1"
\* with nothing but white space around it, FALSE for every other content, and no
\* content of `enabled` makes a load fail that succeeds with "1".
C11_PermissiveEnabled ==
    (out.cmd = "from_fs" /\ IsFile(fs, <<out.name, "enabled">>))
        => /\ out.res.ok = LoadsWithEnabledOne(out.name)
           /\ out.res.ok => (out.res.val.enabled = Padded(EnabledOf(out.name), "1"))

\* C11 witness: a load succeeded with enabled = FALSE on an `enabled` that holds
\* neither "0" nor "1".
C11_Witness ==
    /\ out.cmd = "from_fs" /\ out.res.ok /\ ~out.res.val.enabled
    /\ HasData(fs, <<out.name, "enabled">>, <<"2", "\n">>)

\* C12 as claimed: every device that from_fs returns has consistent references:
\* each possible_crtcs name is a CRTC of the device, each possible_encoders name
\* an encoder of the device.
C12_LoadedRefsConsistent ==
    (out.cmd = "from_fs" /\ out.res.ok) => ConsistentRefs(out.res.val)

\* No two entities of one category of the device have the same name.
UniqueNames(device) ==
    LET Distinct(entities) ==
            \A i, j \in DOMAIN entities : entities[i].name = entities[j].name => i = j
    IN  /\ Distinct(device.planes)
        /\ Distinct(device.crtcs)
        /\ Distinct(device.encoders)
        /\ Distinct(device.connectors)

\* The calls of build() that create a directory an earlier call of it created.
RepeatedMkDirs(device) ==
    {k \in DOMAIN build(device) :
        /\ build(device)[k].op = "create_dir"
        /\ \E j \in 1..(k - 1) : build(device)[j] = build(device)[k]}

\* C13 as claimed: in every builder the names within each category are unique.
C13_BuilderNamesUnique ==
    dev # NoDevice => UniqueNames(dev)

\* C13 amended: a builder may hold a name twice in a category; build() of such a
\* builder never completes and never gets past the first create_dir of a
\* directory it has already created, so every device that build() materializes
\* completely has unique names within each category.
C13_BuiltNamesUnique ==
    (pc \in {"build", "ok", "err"} /\ dev # NoDevice /\ ~UniqueNames(dev))
        => /\ pc # "ok"
           /\ \A k \in RepeatedMkDirs(dev) : step <= k

\* C13 witness: build() of a builder with a repeated name failed at the
\* create_dir of the second entity of that name.
C13_Witness ==
    /\ Materializing /\ pc = "err" /\ ~UniqueNames(dev)
    /\ step \in RepeatedMkDirs(dev)
    /\ fs = Run(fs0, build(dev), step - 1)

\* C14 as claimed: listing a tree that holds no device succeeds with no device.
C14_ListNoDevice ==
    (out.cmd = "list" /\ \A p \in DOMAIN fs : p = <<>>)
        => out.res = Good(<<>>)

\* C14 amended: listing succeeds with no device when the vkms directory is there
\* and empty, and fails with the error of read_dir when the vkms directory is
\* not there.
C14_ListEmptyVkms ==
    out.cmd = "list" =>
        /\ (IsDir(fs, <<>>) /\ Children(fs, <<>>) = {}) => out.res = Good(<<>>)
        /\ ~Exists(fs, <<>>) => out.res = Bad("NotFound")

\* C14 witness: an empty vkms directory was listed.
C14_Witness ==
    out.cmd = "list" /\ fs = EmptyTree /\ out.res = Good(<<>>)

\* C15: a successful removal of a device deletes every path of the device, its
\* symlinks included, and leaves every other path of the tree as it was, also
\* the directories that the device's symlinks pointed at.
C15_RemoveKeepsOtherDevices ==
    (out.cmd = "remove" /\ out.res.ok)
        => /\ DOMAIN fs = {p \in DOMAIN fs0 : ~IsPrefix(<<out.name>>, p)}
           /\ \A p \in DOMAIN fs : fs[p] = fs0[p]

\* C15 witness: a device was removed that had a symlink into another device's
\* tree, and that device's tree is still there.
C15_Witness ==
    /\ out.cmd = "remove" /\ out.res.ok
    /\ \E p \in DOMAIN fs0 :
          /\ IsPrefix(<<out.name>>, p)
          /\ fs0[p].kind = "link"
          /\ ~IsPrefix(<<out.name>>, fs0[p].target)
          /\ IsDir(fs, fs0[p].target)

\* ------------------------------------------------------------ adapter runs

\* The orders in which a JSON document declares its four collections: that of
\* ConfigValidator, that of build(), and two with every reference declared
\* before the entity it names.
DeclarationOrders ==
    { <<"planes", "crtcs", "encoders", "connectors">>,
      <<"crtcs", "planes", "encoders", "connectors">>,
      <<"connectors", "encoders", "planes", "crtcs">>,
      <<"planes", "connectors", "encoders", "crtcs">> }

\* The JSON document of a configuration: its members in declaration order.
ToDocument(config, order) ==
    << [key |-> "name", value |-> config.name],
       [key |-> "enabled", value |-> config.enabled] >>
    \o [i \in DOMAIN order |-> [key |-> order[i], value |-> config[order[i]]]]

Documents == {ToDocument(config, order) : config \in Configs, order \in DeclarationOrders}

\* The value of the document's member `key`.
Member(document, key) ==
    document[CHOOSE i \in DOMAIN document : document[i].key = key].value

\* ConfigValidator::from_json_value: every field is the member of its name.
from_json_value(document) ==
    [name |-> Member(document, "name"),
     enabled |-> Member(document, "enabled"),
     planes |-> Member(document, "planes"),
     crtcs |-> Member(document, "crtcs"),
     encoders |-> Member(document, "encoders"),
     connectors |-> Member(document, "connectors")]

\* The vkms directory before any device is made.
InitEmpty ==
    /\ fs = EmptyTree
    /\ fs0 = fs
    /\ pc = "idle"
    /\ dev = NoDevice
    /\ cli = FALSE
    /\ step = 0
    /\ out = NoOutcome
    /\ peer = NoPeer

\* create_vkms_device on a JSON document: from_json_value, the adapter, then
\* build() unless the adapter failed.
create_vkms_device ==
    /\ pc = "idle"
    /\ \E document \in Documents :
         LET builder == create_vkms_device_builder(from_json_value(document))
         IN  /\ IF builder.ok
                THEN dev' = builder.val /\ pc' = "build" /\ step' = 1
                ELSE dev' = NoDevice /\ pc' = "err" /\ step' = 0
             /\ out' = [cmd |-> "create", document |-> document]
    /\ cli' = TRUE
    /\ fs0' = fs
    /\ UNCHANGED <<fs, peer>>

NextAdapter ==
    \/ create_vkms_device
    \/ BuildStep

SpecAdapter == InitEmpty /\ [][NextAdapter]_vars

\* The device model that a JSON document describes: one entity per descriptor,
\* in the document's order, an omitted member taking the default of its field.
DeviceOfDocument(document) ==
    LET OrElse(opt, default) == IF opt.some THEN opt.val ELSE default
        KindOf(type) == CASE type = "primary" -> "Primary"
                          [] type = "overlay" -> "Overlay"
                          [] type = "cursor" -> "Cursor"
        planes == Member(document, "planes")
        crtcs == Member(document, "crtcs")
        encoders == Member(document, "encoders")
        connectors == Member(document, "connectors")
    IN  [name |-> Member(document, "name"),
         enabled |-> Member(document, "enabled"),
         planes |-> [i \in DOMAIN planes |->
             [name |-> planes[i].name,
              kind |-> IF planes[i].type.some THEN KindOf(planes[i].type.val) ELSE "Overlay",
              possible_crtcs |-> OrElse(planes[i].possible_crtcs, <<>>)]],
         crtcs |-> [i \in DOMAIN crtcs |->
             [name |-> crtcs[i].name,
              is_writeback_enabled |-> OrElse(crtcs[i].writeback, FALSE)]],
         encoders |-> [i \in DOMAIN encoders |->
             [name |-> encoders[i].name,
              possible_crtcs |-> OrElse(encoders[i].possible_crtcs, <<>>)]],
         connectors |-> [i \in DOMAIN connectors |->
             [name |-> connectors[i].name,
              status |-> "Connected",
              possible_encoders |-> OrElse(connectors[i].possible_encoders, <<>>)]]]

\* C16: the builder that create_vkms_device hands to build() is the device model
\* the document describes: name and enabled copied, one entity per descriptor in
\* declaration order, "primary", "overlay", "cursor" as Primary, Overlay, Cursor,
\* and Overlay, no writeback, Connected and no references where a member is omitted.
C16_AdapterFieldMapping ==
    out.cmd = "create" => (dev # NoDevice /\ dev = DeviceOfDocument(out.document))

\* C16 witness: a document with two planes, the second without type and
\* possible_crtcs, went through the adapter, which made it an Overlay plane
\* without references after the first.
C16_Witness ==
    /\ out.cmd = "create" /\ dev # NoDevice
    /\ Len(Member(out.document, "planes")) = 2
    /\ Member(out.document, "planes")[1].type = Some("primary")
    /\ Member(out.document, "planes")[2].type = None
    /\ Member(out.document, "planes")[2].possible_crtcs = None
    /\ dev.planes[2] = [name |-> Member(out.document, "planes")[2].name,
                        kind |-> "Overlay", possible_crtcs |-> <<>>]

\* Every reference of the document names an entity that the document declares,
\* wherever in the document the declaration is.
ReferencesResolve(document) ==
    LET NamesOf(key) == {Member(document, key)[i].name : i \in DOMAIN Member(document, key)}
        RefsOf(key, field) ==
            UNION {IF Member(document, key)[i][field].some
                   THEN Range(Member(document, key)[i][field].val) ELSE {}
                   : i \in DOMAIN Member(document, key)}
    IN  /\ RefsOf("planes", "possible_crtcs") \subseteq NamesOf("crtcs")
        /\ RefsOf("encoders", "possible_crtcs") \subseteq NamesOf("crtcs")
        /\ RefsOf("connectors", "possible_encoders") \subseteq NamesOf("encoders")

\* A document whose references resolve is accepted in every declaration order:
\* build() runs on its builder, and fails only at a path it has already made
\* (a name declared twice, or referenced twice by one entity).
ResolvedIsAccepted ==
    (out.cmd = "create" /\ ReferencesResolve(out.document))
        => /\ dev # NoDevice /\ step >= 1
           /\ pc = "err" =>
                 \E j \in 1..(step - 1) : build(dev)[j].path = build(dev)[step].path

\* C17 as claimed: in every declaration order, a document whose references
\* resolve is accepted and materialized, and a document with an unresolved
\* reference is rejected by the adapter, before build() and with the tree as it was.
C17_OrderIndependentCheck ==
    /\ ResolvedIsAccepted
    /\ (out.cmd = "create" /\ ~ReferencesResolve(out.document))
          => (pc = "err" /\ step = 0 /\ fs = fs0)

\* ------------------------------------------------------------ a load racing a build

\* from_fs of the same device by another process while build() is between two
\* of its calls: no lock keeps the two apart.  `at` is the call build() had reached.
LoadDuringBuild ==
    /\ pc = "build"
    /\ \E r \in from_fs(fs, dev.name) :
         out' = [cmd |-> "from_fs_racing", name |-> dev.name, at |-> step, res |-> r]
    /\ UNCHANGED <<fs, fs0, pc, dev, cli, step, peer>>

NextRace ==
    \/ StartBuild
    \/ BuildStep
    \/ LoadDuringBuild

SpecRace == InitEmpty /\ [][NextRace]_vars

\* C18: a load of the device that build() is materializing, taken before the
\* first call of build(), fails although the build goes on; taken between two
\* later calls, it succeeds or fails, and when it succeeds it yields a device
\* that is not enabled and holds no entity but those of the builder, so that it
\* is not equivalent to the builder whenever the builder is enabled.
C18_RacingLoadIsPartial ==
    (out.cmd = "from_fs_racing" /\ Materializing /\ out.name = dev.name)
        => /\ out.at = 1 => ~out.res.ok
           /\ (out.at > 1 /\ out.res.ok) =>
                 /\ ~out.res.val.enabled
                 /\ Names(out.res.val.crtcs) \subseteq Names(dev.crtcs)
                 /\ Names(out.res.val.planes) \subseteq Names(dev.planes)
                 /\ Names(out.res.val.encoders) \subseteq Names(dev.encoders)
                 /\ Names(out.res.val.connectors) \subseteq Names(dev.connectors)
                 /\ dev.enabled => ~SameDevice(out.res.val, dev)

\* C18 witness: build() has completed, and a load taken while it ran had
\* succeeded with a device that lacks a connector and a reference of the builder.
C18_Witness ==
    /\ out.cmd = "from_fs_racing" /\ Materializing /\ out.name = dev.name
    /\ pc = "ok"
    /\ out.res.ok
    /\ ~SameDevice(out.res.val, dev)
    /\ Names(out.res.val.planes) = Names(dev.planes)
    /\ Names(out.res.val.connectors) # Names(dev.connectors)
    /\ \E i \in DOMAIN out.res.val.planes : out.res.val.planes[i].possible_crtcs = <<>>
    /\ \A i \in DOMAIN dev.planes : dev.planes[i].possible_crtcs # <<>>

\* ------------------------------------------------------------ two builds at once

\* The builders of the second process: the reference pipeline, and a different
\* device of the same name.
PeerModels ==
    { BaseDevice,
      [BaseDevice EXCEPT !.enabled = FALSE, !.crtcs[1].is_writeback_enabled = TRUE,
                         !.connectors = <<>>] }

\* A second process calls build() on a builder of its own.
PeerStartBuild ==
    /\ peer.pc = "idle"
    /\ \E m \in PeerModels :
         peer' = [pc |-> "build", dev |-> m, step |-> 1, fs0 |-> fs]
    /\ UNCHANGED <<fs, fs0, pc, dev, cli, step, out>>

\* build() in the second process: its next filesystem call, on the same tree.
PeerBuildStep ==
    /\ peer.pc = "build"
    /\ LET r == Apply(fs, build(peer.dev)[peer.step])
       IN  IF r.ok
           THEN /\ fs' = r.fs
                /\ peer' = [peer EXCEPT
                              !.step = @ + 1,
                              !.pc = IF peer.step = Len(build(peer.dev)) THEN "ok" ELSE "build"]
           ELSE /\ peer' = [peer EXCEPT !.pc = "err"]
                /\ UNCHANGED fs
    /\ UNCHANGED <<fs0, pc, dev, cli, step, out>>

NextTwoBuilds ==
    \/ StartBuild
    \/ BuildStep
    \/ PeerStartBuild
    \/ PeerBuildStep

SpecTwoBuilds == InitEmpty /\ [][NextTwoBuilds]_vars

\* Both processes have entered build() for the same device name.
SameNameBuilds ==
    /\ pc \in {"build", "ok", "err"} /\ dev # NoDevice
    /\ peer.pc \in {"build", "ok", "err"}
    /\ peer.dev.name = dev.name

\* C19: of two build() invocations for one device name, at most one gets past
\* the creation of the device directory; the other stays at or fails at its
\* first call, and the tree holds exactly the calls that the one past its first
\* call has made, applied to the tree it started on.
C19_OneBuildWins ==
    SameNameBuilds =>
        /\ ~(step > 1 /\ peer.step > 1)
        /\ step > 1 =>
              /\ peer.pc \in {"build", "err"}
              /\ fs = Run(fs0, build(dev), step - 1)
        /\ peer.step > 1 =>
              /\ pc \in {"build", "err"}
              /\ fs = Run(peer.fs0, build(peer.dev), peer.step - 1)

\* C19 witness: two builds of different devices under one name were both
\* started before the device directory was there; one has completed, the other
\* has failed at its first call.
C19_Witness ==
    /\ SameNameBuilds
    /\ peer.dev # dev
    /\ ~Exists(fs0, path(dev)) /\ ~Exists(peer.fs0, path(dev))
    /\ pc = "ok" /\ peer.pc = "err" /\ peer.step = 1

\* The tree lacks something from_fs of device d reads, or holds a plane type or
\* a connector status that is no digit of its encoding.
Unloadable(tree, d) ==
    \/ ~IsFile(tree, <<d, "enabled">>)
    \/ \E group \in {"planes", "crtcs", "encoders", "connectors"} : ~IsDir(tree, <<d, group>>)
    \/ \E n \in Children(tree, <<d, "planes">>) :
          \/ ~IsFile(tree, <<d, "planes", n, "type">>)
          \/ \A v \in {"0", "1", "2"} : ~Padded(tree[<<d, "planes", n, "type">>].data, v)
    \/ \E n \in Children(tree, <<d, "connectors">>) :
          \/ ~IsFile(tree, <<d, "connectors", n, "status">>)
          \/ \A v \in {"1", "2", "3"} : ~Padded(tree[<<d, "connectors", n, "status">>].data, v)

\* C20: when the tree lacks something from_fs reads, or holds a plane type or a
\* connector status outside its encoding, the remove command fails with an
\* error that from_fs returns on that tree, and the tree stays as it was; and
\* the remove command never changes the tree when it fails.
C20_FailedLoadKeepsTree ==
    out.cmd = "remove" =>
        /\ Unloadable(fs0, out.name) =>
              /\ ~out.res.ok
              /\ \E r \in from_fs(fs0, out.name) : ~r.ok /\ r.err = out.res.err
        /\ ~out.res.ok => fs = fs0

\* C20 witness: the removal of a device whose plane type is outside the
\* encoding failed with InvalidData, and the device is still in the tree.
C20_Witness ==
    /\ out.cmd = "remove" /\ ~out.res.ok /\ out.res.err = "InvalidData"
    /\ HasData(fs, <<out.name, "planes", "p0", "type">>, <<"3">>)
    /\ fs = fs0

====
